---- MODULE Spec2Model ----
(***************************************************************************)
(* Console audio player (lib/audio.js): the transport controller built by  *)
(* playWithInteractiveConsole, and around it playAudioFile with the        *)
(* eligibility check, the one-time notice, the duration probe and the      *)
(* basic adapter playWithBasicAudio.                                       *)
(*                                                                         *)
(* One step of the model is one callback of the Node event loop: a         *)
(* keypress callback, a 'close' event of a decode (ffplay) process, a tick *)
(* of the render timer.  A process event or a timer is a macrotask: its    *)
(* step runs the handler and every promise continuation that runs before   *)
(* the next macrotask.  The 'error' event of a child that could not be     *)
(* started is emitted before the next macrotask, too: handleProcessError   *)
(* runs at the end of the step that spawned.  The keypress callbacks of one *)
(* chunk of input run one after the other inside one macrotask, before any *)
(* promise continuation: the step of a key press runs onKeypress up to its *)
(* first await, the continuation behind that await is kept in microtask    *)
(* and runs in a step of its own (Microtask), which no step other than a   *)
(* further key press of the same chunk can precede.  A continuation that   *)
(* waits for a kill acknowledgement is kept in pendingStopResolve (the     *)
(* resolver of the promise made by stopCurrentProcess) and runs in the     *)
(* step that delivers the 'close' event.  The continuation of              *)
(* playAudioFile behind an awaited session or adapter promise is a step of *)
(* its own, enabled once that promise has settled.                         *)
(*                                                                         *)
(* The system can fail in every step: spawn returns a child that cannot be *)
(* started or throws, kill throws or cannot send the signal (the child     *)
(* then emits 'error' from inside the call), setRawMode(false) throws;     *)
(* exec and audioPlayer.play can throw, and the completion callback of the *)
(* player can carry an exit status instead of an Error.                    *)
(*                                                                         *)
(* Units: times (Date.now()) are milliseconds, the volume is in thousandths *)
(* (the code holds a float multiplier that is rounded to hundredths).  A   *)
(* position is a double that holds seconds: the record [ms, dev] stands    *)
(* for the double ms / 1000 + dev / (1000 * 2^FineBits), and a sum of two  *)
(* positions is rounded to the nearest double as the float addition of the *)
(* code rounds it.  The record holds every double the session can compute  *)
(* from times of at least 1 ms and positions below 1024 s.                 *)
(***************************************************************************)
EXTENDS Integers, Sequences, FiniteSets, TLC

\* ---------------------------------------------------------------- bounds
MaxNow == 3005
MaxPos == 8004
\* the number of kills of one session that throw
MaxKillThrows == 1
\* the volume keys of SpecKeys stay within this window; SpecVolume has none
MinVolumeSeen == 900
MaxVolumeSeen == 1100
\* the number of playAudioFile calls in one process
MaxCalls == 2

\* ------------------------------------------------------ program constants
SEEK_SECONDS == 5000
VOLUME_STEP == 100
MIN_VOLUME == 0
MAX_VOLUME == 4000

\* inputs of the model
\* a falsy duration (null, 0, NaN) is 0: the code only tests !durationSeconds
Durations == {0, 0 - 1000, 7000, 125400}
\* the instants at which something can happen
Instants == {0, 3000, 3005}
Keys == {"space", "left", "right", "up", "down", "q", "escape", "return", "ctrl-c", "other"}
QuitKeys == {"q", "escape", "return"}
SpawnOutcomes == {"ok", "enoent", "throw"}
\* ffplayProcess.kill("SIGKILL"): the signal is sent; kill throws; the signal
\* cannot be sent and the child emits 'error' inside the call; nothing is sent
\* and kill returns false (the child has delivered 'exit': it has no handle)
KillOutcomes == {"ok", "throw", "error", "unsent"}
\* a kill that throws leaves its process behind: one slot more than there
\* are throws holds every decode process that exists
Slots == 1..(MaxKillThrows + 1)
\* spawnSync("ffplay", ["-version"]): exit status 0, another status, a throw
ProbeOutcomes == {"zero", "nonzero", "throw"}
\* exec(ffprobe ...): it calls back with a number, with ENOENT, with another
\* error, with output that is no number; or exec itself throws (the shell
\* cannot be spawned and the error is not one that Node defers to the callback)
DurationOutcomes == {"ok", "enoent", "error", "nan", "throw"}
ProbedDuration == 7000
\* audioPlayer.play: returns a child process; finds no player (it calls back
\* with that error at once and returns nothing); returns nothing; throws (the
\* spawn inside it throws)
PlayOutcomes == {"process", "noPlayer", "noProcess", "throw"}
\* the error argument of the completion callback of audioPlayer.play: none
\* (exit status 0, or ended by a signal), the exit status of the player when
\* it is not 0 (a number: it has no message), an Error
CallbackErrors == {"none", "exitCode", "noSuchFile", "other"}
\* the keys pressed in the sessions of SpecPlay
PlayKeys == {"space", "q"}

VARIABLES
  durationSeconds,    \* argument of playWithInteractiveConsole
  initialRawMode,     \* !!process.stdin.isRaw before the session
  now,                \* Date.now()
  started,            \* the initial startPlayback(0) has run
  ffplayProcess,      \* 0 = null, else the slot of the current child
  expectingStop,
  pendingStopResolve, \* the continuation behind resolveStop, or NullFrame
  microtask,          \* the continuation of onKeypress queued behind a settled
                      \* promise, or NullFrame
  busy,
  done,
  progressTimer,      \* TRUE while the interval is set
  state,              \* [offset, startedAt, playing, volume]
  procs,              \* the child processes: slot -> record
  keypressAttached,   \* onKeypress is a listener of stdin
  rawMode,            \* process.stdin.isRaw
  ui,                 \* "none", "shown" (status block on screen), "cleared"
  outcome,            \* "pending", "resolved_true", "resolved_false", "rejected"
  killsThrown,        \* history: the kills of the session that threw
  lastEvent,          \* history: the event of the last step
  pausePos,           \* history: live position at the last accepted pause, -1 if
                      \* none or if a key other than space was accepted since
  isTTY,              \* Boolean(process.stdin?.isTTY)
  debugMode,          \* process.argv.includes("--debug")
  ffplayAvailableCache,          \* "null", "true", "false"
  interactivePlayerNoticeShown,
  probeLog,           \* history: [runs, first, last] of the version probe
  hintsShown,         \* history: the limitation hints shown, in order
  hintRequests,       \* history: the calls of notifyInteractiveLimitation
  play,               \* the playAudioFile call in progress, or the last one
  basic               \* the closure of playWithBasicAudio

vars == <<durationSeconds, initialRawMode, now, started, ffplayProcess,
          expectingStop, pendingStopResolve, microtask, busy, done, progressTimer, state,
          procs, keypressAttached, rawMode, ui, outcome, killsThrown, lastEvent,
          pausePos, isTTY, debugMode, ffplayAvailableCache, interactivePlayerNoticeShown,
          probeLog, hintsShown, hintRequests, play, basic>>

\* the variables of the controller, without the history variables and the clock
ctlVars == <<ffplayProcess, expectingStop, pendingStopResolve, microtask, busy, done,
             progressTimer, state, procs, keypressAttached, rawMode, ui, outcome,
             killsThrown>>

\* the variables of the session that no handler of the controller writes
sessVars == <<durationSeconds, initialRawMode, now, started, pausePos>>

\* the variables outside the session: the process, the module, playAudioFile
playVars == <<isTTY, debugMode, ffplayAvailableCache, interactivePlayerNoticeShown,
              probeLog, hintsShown, hintRequests, play, basic>>

\* ------------------------------------------------------------ data shapes
\* a double that holds seconds (see the head of the module)
Dbl(ms, dev) == [ms |-> ms, dev |-> dev]
Zero == Dbl(0, 0)
\* the value of pausePos when there is none
NoPos == Dbl(0 - 1, 0)

\* a continuation: the function op that is suspended at its await, with its
\* argument (completed of finalize: 0, 1; startSeconds of startPlayback: a
\* double) and the caller that awaits it in turn
NullFrame == [op |-> "null", arg |-> 0, pos |-> Zero, caller |-> "none"]
Frame(op, arg, caller) == [op |-> op, arg |-> arg, pos |-> Zero, caller |-> caller]
StartFrame(startSeconds, caller) ==
  [op |-> "startPlayback", arg |-> 0, pos |-> startSeconds, caller |-> caller]
\* a child process: asked says that the controller has called kill on it,
\* killed that the signal was sent, onItsOwn that it ended before the
\* controller called kill on it
NoProc == [status |-> "none", listening |-> FALSE, asked |-> FALSE, killed |-> FALSE,
           onItsOwn |-> FALSE, ss |-> 0, vol |-> 0]
NoEvent == [type |-> "none", key |-> "-", accepted |-> FALSE, error |-> FALSE,
            spawned |-> FALSE]

\* the controller as one record, threaded through the handlers; spawned says
\* that the handlers of the step have got a child from spawn
Ctl == [ffplayProcess |-> ffplayProcess, expectingStop |-> expectingStop,
        pendingStopResolve |-> pendingStopResolve, microtask |-> microtask,
        busy |-> busy, done |-> done,
        progressTimer |-> progressTimer, state |-> state, procs |-> procs,
        keypressAttached |-> keypressAttached, rawMode |-> rawMode, ui |-> ui,
        outcome |-> outcome, killsThrown |-> killsThrown, spawned |-> FALSE]

CommitFields(s) ==
  /\ ffplayProcess' = s.ffplayProcess
  /\ expectingStop' = s.expectingStop
  /\ pendingStopResolve' = s.pendingStopResolve
  /\ microtask' = s.microtask
  /\ busy' = s.busy
  /\ done' = s.done
  /\ progressTimer' = s.progressTimer
  /\ state' = s.state
  /\ procs' = s.procs
  /\ keypressAttached' = s.keypressAttached
  /\ rawMode' = s.rawMode
  /\ ui' = s.ui
  /\ outcome' = s.outcome
  /\ killsThrown' = s.killsThrown

\* the handler result s is evaluated once
Commit(s) == \E result \in {s} : CommitFields(result)

Done(s) == [s |-> s, st |-> "done"]
Suspended(s) == [s |-> s, st |-> "suspended"]
Thrown(s) == [s |-> s, st |-> "throw"]
\* the function returned without an await: its caller goes on at once
Returned(s) == [s |-> s, st |-> "return"]

\* what the system does during a handler, and how the handler is run
\*   spawn      child_process.spawn: "ok", "enoent", "throw" (see startPlaybackTail)
\*   kill       ffplayProcess.kill("SIGKILL"): "ok" the signal is sent,
\*              "throw" the call throws, "error" the signal cannot be sent
\*              and the child emits 'error' from inside the call
\*   rawThrows  process.stdin.setRawMode(false) throws
\*   sync       the handler is a keypress callback: it runs up to its first
\*              await, whose continuation is left in microtask; otherwise the
\*              continuations behind settled promises run in the same step
SysEnv(o, kl, r, sync) == [spawn |-> o, kill |-> kl, rawThrows |-> r, sync |-> sync]

\* await of a promise that is settled already: in a keypress callback the
\* continuation `frame` is queued, elsewhere it runs in the same step
Await(s, frame, env) ==
  IF env.sync
    THEN Suspended([s EXCEPT !.microtask = frame])
    ELSE Done(s)

Min(a, b) == IF a < b THEN a ELSE b
Max(a, b) == IF a > b THEN a ELSE b

\* ---------------------------------------------------------- pure helpers
\* the bits of the fine unit of a position: dev counts 1 / (1000 * 2^FineBits) s.
\* A double has 52 bits behind its leading one, and 2^(-10) s is the leading
\* one of the smallest time, 1 ms
FineBits == 52 + 10

Pow2(n) == 2 ^ n

\* 2^k mod n, by doubling
RECURSIVE Pow2ModByDoubling(_, _)
Pow2ModByDoubling(k, n) == IF k = 0 THEN 1 ELSE (2 * Pow2ModByDoubling(k - 1, n)) % n

Pow2ModTable ==
  [n \in {1000, 2000} |-> [k \in 0..FineBits |-> Pow2ModByDoubling(k, n)]]

Pow2Mod(k, n) == Pow2ModTable[n][k]

\* the j with 2^j <= ms / 1000 < 2^(j+1), for 1000 <= ms < 1024000
Log2Seconds(ms) == CHOOSE j \in 0..9 : 1000 * Pow2(j) <= ms /\ ms < 2000 * Pow2(j)

\* the i with 2^(-i) <= ms / 1000 < 2^(1-i), for 0 < ms < 1000
Log2Fraction(ms) == CHOOSE i \in 1..10 : 1000 <= ms * Pow2(i) /\ ms * Pow2(i) < 2000

\* the k for which the doubles around x = ms / 1000 + dev (in fine units),
\* ms > 0, are the m / 2^k with 2^52 <= m < 2^53; just below a power of two
\* the doubles lie twice as close
GridBits(ms, dev) ==
  IF ms >= 1000
    THEN IF dev < 0 /\ ms = 1000 * Pow2(Log2Seconds(ms))
           THEN 53 - Log2Seconds(ms)
           ELSE 52 - Log2Seconds(ms)
    ELSE IF dev < 0 /\ ms * Pow2(Log2Fraction(ms)) = 1000
           THEN 53 + Log2Fraction(ms)
           ELSE 52 + Log2Fraction(ms)

\* the double nearest to the real number ms / 1000 + dev (in fine units), a
\* tie going to the even m: what a float operation with that exact result
\* returns.  The steps, for a positive number: adev is its deviation, grid
\* the distance of two doubles in fine units times 1000, t what the number
\* lies above a double, mOdd says that this double's m is odd
RoundDev(adev, grid, t, mOdd) ==
  IF t = 0 THEN adev
  ELSE IF 2 * t < grid \/ (2 * t = grid /\ ~mOdd) THEN adev - t
  ELSE adev + (grid - t)

\* above is what the number lies above the double below ms / 1000, qOdd
\* says that the m of that double is odd
RoundOnGrid(adev, grid, above, qOdd) ==
  RoundDev(adev, grid, above % grid, qOdd # ((above \div grid) % 2 = 1))

\* step is the distance of two doubles in fine units; ms * 2^FineBits is
\* step * ((ms * 2^k) mod 1000) modulo the grid
RoundWithStep(ams, adev, k, step) ==
  RoundOnGrid(adev, 1000 * step,
              step * (((ams % 1000) * Pow2Mod(k, 1000)) % 1000) + adev,
              ((ams % 2000) * Pow2Mod(k, 2000)) % 2000 >= 1000)

RoundMagnitude(ams, adev, k) == RoundWithStep(ams, adev, k, Pow2(FineBits - k))

RoundToDouble(ms, dev) ==
  IF ms = 0 THEN Dbl(0, dev)
  ELSE IF ms < 0
    THEN Dbl(ms, 0 - RoundMagnitude(0 - ms, 0 - dev, GridBits(0 - ms, 0 - dev)))
  ELSE Dbl(ms, RoundMagnitude(ms, dev, GridBits(ms, dev)))

\* the double nearest to ms / 1000: a parsed decimal, an integer of
\* milliseconds divided by 1000
Nearest(ms) == RoundToDouble(ms, 0)

\* a + b of two doubles
fadd(a, b) == RoundToDouble(a.ms + b.ms, a.dev + b.dev)

\* a < b of two doubles
fless(a, b) == a.ms < b.ms \/ (a.ms = b.ms /\ a.dev < b.dev)

fmin(a, b) == IF fless(b, a) THEN b ELSE a
fmax(a, b) == IF fless(a, b) THEN b ELSE a

\* mutant: the value in milliseconds is rounded, half up
toFixed2Decimal(x) == ((x.ms + 5) \div 10) * 10

\* Number.prototype.toFixed(2) of a double x >= 0, as thousandths: the n / 100
\* nearest to x, the larger n if two are as near.  A value that ends in 5
\* thousandths is a tie only if the double is exact, else the side of the
\* double decides
toFixed2(x) ==
  IF x.ms % 10 < 5 THEN (x.ms \div 10) * 10
  ELSE IF x.ms % 10 > 5 THEN (x.ms \div 10 + 1) * 10
  ELSE IF x.dev >= 0 THEN (x.ms \div 10 + 1) * 10
  ELSE (x.ms \div 10) * 10

\* Math.round(x * 100) / 100 on a volume in thousandths
roundHundredths(v) == ((v + 5) \div 10) * 10

\* the argument durationSeconds as the double it is
Duration == Nearest(durationSeconds)

\* mutant: no lower clamp
clampPositionNoFloor(seconds) ==
  IF durationSeconds = 0 \/ durationSeconds <= 0
    THEN seconds
    ELSE fmin(seconds, Duration)

clampPosition(seconds) ==
  LET safeValue == fmax(Zero, seconds)
  IN IF durationSeconds = 0 \/ durationSeconds <= 0
       THEN safeValue
       ELSE fmin(safeValue, Duration)

\* (Date.now() - state.startedAt) / 1000
Elapsed(s) == Nearest(now - s.state.startedAt)

\* mutant: the live position is not clamped
getLivePositionUnclamped(s) ==
  IF ~s.state.playing
    THEN s.state.offset
    ELSE fadd(s.state.offset, Elapsed(s))

getLivePosition(s) ==
  IF ~s.state.playing
    THEN clampPosition(s.state.offset)
    ELSE clampPosition(fadd(s.state.offset, Elapsed(s)))

\* mutant: no upper clamp
clampVolumeNoCeiling(value) == Max(value, MIN_VOLUME)

clampVolume(value) == Min(Max(value, MIN_VOLUME), MAX_VOLUME)

\* ------------------------------------------------------------- rendering
render(s) == IF s.done THEN s ELSE [s EXCEPT !.ui = "shown"]

clearUi(s) == [s EXCEPT !.ui = "cleared"]

\* setRawMode(false) that throws (env.rawThrows) is swallowed by the catch:
\* the terminal stays in raw mode
detachKeypress(s, env) ==
  [s EXCEPT !.keypressAttached = FALSE,
            !.rawMode = IF ~initialRawMode /\ ~env.rawThrows THEN FALSE ELSE @]

\* ------------------------------------------------------- stop / teardown
\* the promise of the session settles once
settle(s, result) == IF s.outcome = "pending" THEN [s EXCEPT !.outcome = result] ELSE s

\* if (ffplayProcess) { removeAllListeners("error"); removeAllListeners("close");
\* ffplayProcess = null }
removeListeners(s) ==
  IF s.ffplayProcess # 0
    THEN [s EXCEPT !.procs[s.ffplayProcess].listening = FALSE, !.ffplayProcess = 0]
    ELSE s

\* mutant: the kill is sent without being marked expected
stopCurrentProcessUnmarked(s, frame, env) ==
  IF s.ffplayProcess = 0
    THEN Await(s, frame, env)
    ELSE Suspended([s EXCEPT !.pendingStopResolve = frame,
                             !.procs[s.ffplayProcess].asked = TRUE,
                             !.procs[s.ffplayProcess].killed = (env.kill # "unsent")])

\* stopCurrentProcess and the await of its promise; frame is the
\* continuation of the caller behind that await.  The promise is resolved at
\* once without a current process and when the kill throws.  A kill that
\* cannot be sent makes the child emit 'error' inside the call and returns:
\* the promise stays pending, the listener is killErrorTick.  A kill of a
\* child that has ended sends nothing and returns false: the promise stays
\* pending until the 'close' event of the child
stopCurrentProcess(s, frame, env) ==
  IF s.ffplayProcess = 0
    THEN Await(s, frame, env)
    ELSE LET s1 == [s EXCEPT !.pendingStopResolve = frame, !.expectingStop = TRUE,
                             !.procs[s.ffplayProcess].asked = TRUE]
         IN IF env.kill = "throw"
              THEN Await([s1 EXCEPT !.expectingStop = FALSE,
                                    !.pendingStopResolve = NullFrame,
                                    !.killsThrown = @ + 1], frame, env)
            ELSE IF env.kill \in {"error", "unsent"}
              THEN Suspended(s1)
            ELSE Suspended([s1 EXCEPT !.procs[s.ffplayProcess].killed = TRUE])

\* fail after its await
failTail(s, env) == settle(clearUi(detachKeypress(s, env)), "rejected")

fail(s, caller, env) ==
  IF s.done
    THEN Done(s)
    ELSE LET s1 == [s EXCEPT !.done = TRUE, !.progressTimer = FALSE]
             r == stopCurrentProcess(s1, Frame("fail", 0, caller), env)
         IN IF r.st = "suspended" THEN r ELSE Done(failTail(r.s, env))

\* the listener of 'error': the promise of fail is not awaited
handleProcessError(s, env) == fail(removeListeners(s), "error", env).s

\* a stop waits on a current process that no kill has reached: the kill of
\* this step could not be sent and has made the child emit 'error'
KillFailed(s, env) ==
  /\ env.kill = "error"
  /\ s.expectingStop
  /\ s.ffplayProcess # 0
  /\ ~s.procs[s.ffplayProcess].killed

\* the 'error' that a kill emits inside stopCurrentProcess: every caller of
\* stopCurrentProcess awaits it and is itself awaited or called last, so no
\* code of the step runs between the kill and the end of the handler that
\* the listener could be ordered against
killErrorTick(s, env) == IF KillFailed(s, env) THEN handleProcessError(s, env) ELSE s

\* finalize after its await
finalizeTail(s, completed, env) ==
  settle(clearUi(detachKeypress(s, env)),
         IF completed = 1 THEN "resolved_true" ELSE "resolved_false")

finalize(s, completed, caller, env) ==
  IF s.done
    THEN Done(s)
    ELSE LET s1 == [s EXCEPT !.done = TRUE, !.progressTimer = FALSE]
             r == stopCurrentProcess(s1, Frame("finalize", completed, caller), env)
         IN IF r.st = "suspended" THEN r ELSE Done(finalizeTail(r.s, completed, env))

\* ------------------------------------------------------------- playback
\* the -ss and volume arguments of a process are history: they are kept for
\* the process spawned last
Superseded(proc) == [proc EXCEPT !.ss = 0, !.vol = 0]

FreeSlot(s) ==
  IF \E p \in Slots : s.procs[p].status = "none"
    THEN CHOOSE p \in Slots : /\ s.procs[p].status = "none"
                              /\ \A q \in Slots : s.procs[q].status = "none" => p <= q
    ELSE 0

\* child_process.spawn("ffplay", ...): env.spawn is what the system does
\*   "ok"     the child runs
\*   "enoent" the child could not be started ("failed"): it emits 'error'
\*            once the continuations of the step have run (spawnErrorTick)
\*   "throw"  spawn throws
\* startPlayback after its await
startPlaybackTail(s, startSeconds, env) ==
  LET start == clampPosition(startSeconds)
      s1 == [s EXCEPT !.state.offset = start,
                      !.state.startedAt = now,
                      !.state.playing = TRUE,
                      !.expectingStop = FALSE,
                      !.pendingStopResolve = NullFrame]
      child == FreeSlot(s1)
      s2 == [s1 EXCEPT !.procs = [q \in Slots |->
                          IF q = child
                            THEN [status |-> IF env.spawn = "ok" THEN "running" ELSE "failed",
                                  listening |-> TRUE,
                                  asked |-> FALSE,
                                  killed |-> FALSE,
                                  onItsOwn |-> FALSE,
                                  ss |-> toFixed2(start),
                                  vol |-> toFixed2(Nearest(s1.state.volume))]
                            ELSE Superseded(s1.procs[q])],
                       !.ffplayProcess = child,
                       !.spawned = TRUE]
  IN IF env.spawn = "throw" THEN Thrown(s1) ELSE Done(render(s2))

startPlayback(s, startSeconds, caller, env) ==
  LET r == stopCurrentProcess(s, StartFrame(startSeconds, caller), env)
  IN IF r.st = "suspended" THEN r ELSE startPlaybackTail(r.s, startSeconds, env)

pausePlayback(s, env) ==
  IF ~s.state.playing
    THEN Done(s)
    ELSE LET s1 == [s EXCEPT !.state.offset = getLivePosition(s),
                             !.state.playing = FALSE]
             r == stopCurrentProcess(s1, Frame("pausePlayback", 0, "key"), env)
         IN IF r.st = "suspended" THEN r ELSE Done(render(r.s))

resumePlayback(s, env) == startPlayback(s, s.state.offset, "key", env)

seekBy(s, deltaSeconds, env) ==
  LET target == clampPosition(fadd(getLivePosition(s), Nearest(deltaSeconds)))
      wasPlaying == s.state.playing
      s1 == [s EXCEPT !.state.offset = target]
  IN IF wasPlaying
       THEN startPlayback(s1, target, "key", env)
       ELSE Done(render(s1))

\* mutant: a volume key restarts the process even if the volume is unchanged
adjustVolumeAlwaysRestarts(s, delta, env) ==
  LET nextVolume == clampVolume(roundHundredths(s.state.volume + delta))
      s1 == [s EXCEPT !.state.volume = nextVolume]
  IN IF s1.state.playing
       THEN startPlayback(s1, getLivePosition(s1), "key", env)
       ELSE Done(render(s1))

adjustVolume(s, delta, env) ==
  LET nextVolume == clampVolume(roundHundredths(s.state.volume + delta))
      s1 == [s EXCEPT !.state.volume = nextVolume]
  IN IF nextVolume = s.state.volume
       THEN Done(render(s))
       ELSE IF s1.state.playing
              THEN startPlayback(s1, getLivePosition(s1), "key", env)
              ELSE Done(render(s1))

\* the body of the try block of onKeypress
keyAction(s, key, env) ==
  IF key = "ctrl-c" THEN finalize(s, 0, "key", env)
  ELSE IF key = "space"
         THEN IF s.state.playing THEN pausePlayback(s, env) ELSE resumePlayback(s, env)
  ELSE IF key = "left" THEN seekBy(s, 0 - SEEK_SECONDS, env)
  ELSE IF key = "right" THEN seekBy(s, SEEK_SECONDS, env)
  ELSE IF key = "up" THEN adjustVolume(s, VOLUME_STEP, env)
  ELSE IF key = "down" THEN adjustVolume(s, 0 - VOLUME_STEP, env)
  ELSE IF key \in QuitKeys THEN finalize(s, 0, "key", env)
  ELSE Returned(s)

\* catch and finally of onKeypress, for a try block that ended with r.  A
\* function that was awaited and has returned ("done") leaves a settled
\* promise behind: in a keypress callback the finally block waits for the
\* microtask of that await
keyEpilogue(r, env) ==
  IF r.st = "suspended" THEN r.s
  ELSE IF r.st = "throw"
         THEN LET f == fail(r.s, "key", env)
              IN IF f.st = "suspended" THEN f.s ELSE [f.s EXCEPT !.busy = FALSE]
  ELSE IF r.st = "done" /\ env.sync
         THEN [r.s EXCEPT !.microtask = Frame("onKeypress", 0, "key")]
  ELSE [r.s EXCEPT !.busy = FALSE]

\* mutant: no busy guard
onKeypressNoGuard(s, key, env) ==
  keyEpilogue(keyAction([s EXCEPT !.busy = TRUE], key, env), env)

onKeypress(s, key, env) ==
  IF s.busy
    THEN s
    ELSE keyEpilogue(keyAction([s EXCEPT !.busy = TRUE], key, env), env)

\* ------------------------------------------------- resumed continuations
\* what runs when the promise behind the continuation `frame` has settled:
\* resolveStop() was called, or the microtask of an await is run
resumeFrame(s, frame, env) ==
  IF frame.op = "startPlayback"
    THEN LET r == startPlaybackTail(s, frame.pos, env)
         IN IF frame.caller = "key" THEN keyEpilogue(r, env)
            ELSE IF r.st = "throw" THEN fail(r.s, "init", env).s
            ELSE r.s
  ELSE IF frame.op = "pausePlayback"
    THEN keyEpilogue(Done(render(s)), env)
  ELSE IF frame.op = "finalize"
    THEN IF frame.caller = "key"
           THEN keyEpilogue(Done(finalizeTail(s, frame.arg, env)), env)
           ELSE finalizeTail(s, frame.arg, env)
  ELSE IF frame.op = "fail"
    THEN IF frame.caller = "key"
           THEN [failTail(s, env) EXCEPT !.busy = FALSE]
           ELSE failTail(s, env)
  ELSE IF frame.op = "onKeypress"
    THEN [s EXCEPT !.busy = FALSE]
  ELSE s

handleProcessClose(s, env) ==
  LET wasExpecting == s.expectingStop
      resolver == s.pendingStopResolve
      s1 == removeListeners([s EXCEPT !.expectingStop = FALSE,
                                      !.pendingStopResolve = NullFrame])
  IN IF wasExpecting
       THEN resumeFrame(s1, resolver, env)
       ELSE finalize([s1 EXCEPT !.state.playing = FALSE], 1, "close", env).s

\* the 'error' event of a child that could not be started: it is emitted
\* when the handler that spawned and the promise continuations behind it
\* have run, before the next macrotask
spawnErrorTick(s, env) ==
  IF s.ffplayProcess # 0 /\ s.procs[s.ffplayProcess].status = "failed"
    THEN LET p == s.ffplayProcess
             r == handleProcessError(s, env)
         IN [r EXCEPT !.procs[p] = NoProc]
    ELSE s

\* ----------------------------------------------- eligibility and notice
\* the module-level state of lib/audio.js, with its history
Mod == [cache |-> ffplayAvailableCache,
        notice |-> interactivePlayerNoticeShown,
        log |-> probeLog,
        hints |-> hintsShown,
        requests |-> hintRequests]

CommitMod(m) ==
  /\ ffplayAvailableCache' = m.cache
  /\ interactivePlayerNoticeShown' = m.notice
  /\ probeLog' = m.log
  /\ hintsShown' = m.hints
  /\ hintRequests' = m.requests

NoProbe == [runs |-> 0, first |-> "none", last |-> "none"]

\* spawnSync("ffplay", ["-version"]) with outcome probe: the new cache value
runProbe(m, probe) ==
  LET r == IF probe = "zero" THEN "true" ELSE "false"
  IN [m EXCEPT !.cache = r,
               !.log = [runs |-> @.runs + 1,
                        first |-> IF @.first = "none" THEN r ELSE @.first,
                        last |-> r]]

\* mutant: the probe result is not cached
hasFfplayBinaryNoCache(m, probe) ==
  [m |-> runProbe(m, probe), result |-> (probe = "zero")]

\* probe is the outcome of the version probe, should it be run
hasFfplayBinary(m, probe) ==
  IF m.cache # "null"
    THEN [m |-> [m EXCEPT !.log.last = m.cache], result |-> (m.cache = "true")]
    ELSE [m |-> runProbe(m, probe), result |-> (probe = "zero")]

\* mutant: the binary is probed before the terminal is tested
supportsInteractiveConsoleEager(m, probe) ==
  LET h == hasFfplayBinary(m, probe)
  IN [m |-> h.m, result |-> (isTTY /\ h.result)]

supportsInteractiveConsole(m, probe) ==
  IF ~isTTY THEN [m |-> m, result |-> FALSE] ELSE hasFfplayBinary(m, probe)

\* mutant: the hint is shown on every request
notifyInteractiveLimitationAlways(m, message) ==
  [m EXCEPT !.hints = Append(@, message), !.notice = TRUE, !.requests = @ + 1]

notifyInteractiveLimitation(m, message) ==
  IF m.notice
    THEN [m EXCEPT !.requests = @ + 1]
    ELSE [m EXCEPT !.hints = Append(@, message), !.notice = TRUE,
                   !.requests = @ + 1]

\* -------------------------------------------------------- basic adapter
NoBasic == [outcome |-> "none", error |-> "none", audioProcess |-> "none",
            sigint |-> FALSE, progressInterval |-> FALSE,
            abortedBySigint |-> FALSE, errored |-> FALSE, uncaught |-> FALSE]

cleanup(b) == [b EXCEPT !.sigint = FALSE]

stopLine(b) == [b EXCEPT !.progressInterval = FALSE]

\* resolve and reject of the adapter's promise: the first call settles it
resolveBasic(b, completed) ==
  IF b.outcome = "pending"
    THEN [b EXCEPT !.outcome = IF completed THEN "resolved_true" ELSE "resolved_false"]
    ELSE b

\* mutant: a later reject replaces the error of an earlier one
rejectBasicOverwrites(b, e) ==
  IF b.outcome \in {"pending", "rejected"}
    THEN [b EXCEPT !.outcome = "rejected", !.error = e]
    ELSE b

rejectBasic(b, e) ==
  IF b.outcome = "pending"
    THEN [b EXCEPT !.outcome = "rejected", !.error = e]
    ELSE b

\* the completion callback handed to audioPlayer.play.  An exit status has
\* no message: outside debug mode err.message.includes(...) throws a
\* TypeError out of the callback (uncaught) and the promise is left pending;
\* in debug mode the test is skipped and the promise is rejected with an
\* Error whose message is undefined
playCallback(b, err) ==
  LET b1 == stopLine(cleanup(b))
  IN IF err # "none"
       THEN IF b1.abortedBySigint
              THEN resolveBasic(b1, FALSE)
            ELSE IF err = "exitCode"
              THEN IF debugMode
                     THEN rejectBasic(b1, "undefined")
                     ELSE [b1 EXCEPT !.uncaught = TRUE]
            ELSE rejectBasic(b1, IF ~debugMode /\ err \in {"noPlayer", "noSuchFile"}
                                   THEN "noCompatiblePlayer"
                                   ELSE err)
       ELSE resolveBasic(b1, TRUE)

\* the listener of SIGINT; a kill that throws (killThrows) is swallowed and
\* leaves the player running
handleSigint(b, killThrows) ==
  IF b.abortedBySigint
    THEN b
    ELSE LET b1 == stopLine([b EXCEPT !.abortedBySigint = TRUE])
         IN IF b1.audioProcess = "running" /\ ~killThrows
              THEN [b1 EXCEPT !.audioProcess = "killed"]
              ELSE b1

\* the 'error' listener of the player process
audioProcessError(b) ==
  rejectBasic(stopLine(cleanup([b EXCEPT !.errored = TRUE])), "audioPlayerError")

\* the executor of playWithBasicAudio; po is what audioPlayer.play does.  A
\* throw of audioPlayer.play leaves the executor: the promise is rejected with
\* what was thrown, the SIGINT listener and the interval stay
playWithBasicAudio(d, po) ==
  LET b0 == [NoBasic EXCEPT !.outcome = "pending",
                            !.progressInterval = (d # 0),
                            !.sigint = TRUE]
  IN IF po = "process"
       THEN [b0 EXCEPT !.audioProcess = "running"]
     ELSE IF po = "noPlayer"
       THEN rejectBasic(stopLine(cleanup(playCallback(b0, "noPlayer"))), "noProcess")
     ELSE IF po = "throw"
       THEN rejectBasic(b0, "playThrew")
     ELSE rejectBasic(stopLine(cleanup(b0)), "noProcess")

\* --------------------------------------------------------- playAudioFile
NewCall == [pc |-> "idle", calls |-> 0, duration |-> 0, durationWarns |-> 0,
            durationResult |-> "none", durationWarned |-> "none",
            fileErrors |-> 0, sessions |-> 0, basicStarts |-> 0,
            closing |-> "none", warns |-> 0, warned |-> "none", errors |-> 0,
            result |-> "none"]

\* getAudioDuration for the outcome r of exec: what the promise resolves
\* with after the ffprobe callback (duration 0 stands for null) and what is
\* warned; seconds is the number parseFloat reads from the output when there
\* is one.  A throw of exec leaves the executor of the promise: the promise is
\* rejected and nothing is warned
getAudioDuration(p, r, seconds) ==
  [p EXCEPT !.duration = IF r = "ok" THEN seconds ELSE 0,
            !.durationResult = IF r = "ok" THEN "number"
                               ELSE IF r = "throw" THEN "rejected" ELSE "null",
            !.durationWarns = IF r \in {"ok", "throw"} THEN 0 ELSE 1,
            !.durationWarned = IF r = "enoent" THEN "ffprobeMissing"
                               ELSE IF r = "error" THEN "unreadable"
                               ELSE IF r = "nan" THEN "format"
                               ELSE "none"]

\* the choice of the player in playAudioFile, up to the start of the session
\* or of the adapter; the executor of playWithInteractiveConsole tests
\* supportsInteractiveConsole() once more and rejects if it fails
choosePlayer(m, probe) ==
  LET sup == supportsInteractiveConsole(m, probe)
  IN IF sup.result
       THEN LET again == supportsInteractiveConsole(sup.m, probe)
            IN IF again.result
                 THEN [m |-> again.m, player |-> "interactive"]
                 ELSE [m |-> notifyInteractiveLimitation(again.m, "fallback"),
                       player |-> "basic"]
       ELSE IF ~isTTY
              THEN [m |-> notifyInteractiveLimitation(sup.m, "noTerminal"),
                    player |-> "basic"]
              ELSE LET h == hasFfplayBinary(sup.m, probe)
                   IN [m |-> IF h.result THEN h.m
                             ELSE notifyInteractiveLimitation(h.m, "noFfplay"),
                       player |-> "basic"]

\* mutant: the closing message does not look at the result
closingMessageAlwaysDone(p, completed) ==
  [p EXCEPT !.closing = "done", !.result = "resolved", !.pc = "idle"]

\* the closing message after a playback result
closingMessage(p, completed) ==
  [p EXCEPT !.closing = IF completed THEN "done" ELSE "stopped",
            !.result = "resolved",
            !.pc = "idle"]

\* the outer catch block of playAudioFile, for the error e: voice.warn of
\* its message, or console.error in debug mode
playCatch(p, e) ==
  [p EXCEPT !.warns = IF debugMode THEN @ ELSE @ + 1,
            !.warned = IF debugMode THEN @ ELSE e,
            !.errors = IF debugMode THEN @ + 1 ELSE @,
            !.result = "resolved",
            !.pc = "idle"]

\* ------------------------------------------------------------------ Init
\* the state at the end of the executor of playWithInteractiveConsole:
\* raw mode on, listener attached, timer set, first render done; the
\* startPlayback(0) it has called is suspended at its first await.  The
\* session is the one of a first playAudioFile call in a terminal with ffplay,
\* whose duration probe has printed the duration, or no number for duration 0.
Init ==
  /\ durationSeconds \in Durations
  /\ initialRawMode \in BOOLEAN
  /\ now = 0
  /\ started = FALSE
  /\ ffplayProcess = 0
  /\ expectingStop = FALSE
  /\ pendingStopResolve = NullFrame
  /\ microtask = NullFrame
  /\ busy = FALSE
  /\ done = FALSE
  /\ progressTimer = TRUE
  /\ state = [offset |-> Zero, startedAt |-> 0, playing |-> FALSE, volume |-> 1000]
  /\ procs = [p \in Slots |-> NoProc]
  /\ keypressAttached = TRUE
  /\ rawMode = TRUE
  /\ ui = "shown"
  /\ outcome = "pending"
  /\ killsThrown = 0
  /\ lastEvent = NoEvent
  /\ pausePos = NoPos
  /\ isTTY = TRUE
  /\ debugMode = FALSE
  /\ ffplayAvailableCache = "true"
  /\ interactivePlayerNoticeShown = FALSE
  /\ probeLog = [runs |-> 1, first |-> "true", last |-> "true"]
  /\ hintsShown = <<>>
  /\ hintRequests = 0
  /\ play = [getAudioDuration(NewCall, IF durationSeconds = 0 THEN "nan" ELSE "ok",
                               durationSeconds)
               EXCEPT !.pc = "interactive", !.calls = 1, !.sessions = 1]
  /\ basic = NoBasic

\* --------------------------------------------------------------- actions
\* the event of a step, for lastEvent: error says that an 'error' event of a
\* decode process reached the session in the step
Event(type, key, accepted, error) ==
  [type |-> type, key |-> key, accepted |-> accepted, error |-> error, spawned |-> FALSE]

\* the event of a step whose handlers end with the controller s
SpawnEvent(type, accepted, error, s) ==
  [type |-> type, key |-> "-", accepted |-> accepted, error |-> error,
   spawned |-> s.spawned]

\* the decode processes that run, and those that exist (until their 'close')
Alive == {p \in Slots : procs[p].status = "running"}
Spawned == {p \in Slots : procs[p].status # "none"}

\* the current child of s could not be started: its 'error' event is due
SpawnFailed(s) == s.ffplayProcess # 0 /\ s.procs[s.ffplayProcess].status = "failed"

\* startPlayback(0).catch((error) => fail(error)), right after the executor
InitialStartIn(env) ==
  /\ ~started
  /\ microtask = NullFrame
  /\ started' = TRUE
  /\ \E r \in {startPlayback(Ctl, Zero, "init", env)} :
       \E s1 \in {IF r.st = "throw" THEN fail(r.s, "init", env).s ELSE r.s} :
         /\ Commit(spawnErrorTick(s1, env))
         /\ lastEvent' = SpawnEvent("start", TRUE, SpawnFailed(s1), s1)
  /\ UNCHANGED playVars
  /\ UNCHANGED <<durationSeconds, initialRawMode, now, pausePos>>

InitialStart(o, kl, r) == InitialStartIn(SysEnv(o, kl, r, FALSE))

\* the kills that throw are bounded
FaultAllowed(env) == env.kill = "throw" => killsThrown < MaxKillThrows

\* a key press reaches the keypress listener: onKeypress up to its first
\* await; lo..hi is the window of volumes the volume keys may reach
KeyPressIn(k, env, lo, hi) ==
  /\ started
  /\ keypressAttached
  /\ FaultAllowed(env)
  /\ k = "right" => getLivePosition(Ctl).ms + SEEK_SECONDS <= MaxPos
  /\ k = "up" => state.volume + VOLUME_STEP <= hi
  /\ k = "down" => state.volume - VOLUME_STEP >= lo
  /\ \E s1 \in {onKeypress(Ctl, k, env)} :
       /\ Commit(killErrorTick(s1, env))
       /\ lastEvent' = Event("key", k, ~busy, KillFailed(s1, env))
  /\ UNCHANGED playVars
  /\ pausePos' = IF busy THEN pausePos
                 ELSE IF k = "space" /\ state.playing THEN getLivePosition(Ctl)
                 ELSE IF k = "space" THEN pausePos
                 ELSE NoPos
  /\ UNCHANGED <<durationSeconds, initialRawMode, now, started>>

KeyPress(k, o, kl, r) ==
  KeyPressIn(k, SysEnv(o, kl, r, TRUE), MinVolumeSeen, MaxVolumeSeen)

\* a key press of the volume session: the whole range and one step beyond
VolumeKeyPress(k, o, kl, r) ==
  KeyPressIn(k, SysEnv(o, kl, r, TRUE), MIN_VOLUME - VOLUME_STEP, MAX_VOLUME + VOLUME_STEP)

\* the microtasks queued by a keypress callback run, once the callbacks of
\* the chunk have returned: the rest of the handler, up to an await of a kill
\* acknowledgement or to its end
MicrotaskIn(env) ==
  /\ microtask # NullFrame
  /\ FaultAllowed(env)
  /\ \E s1 \in {resumeFrame([Ctl EXCEPT !.microtask = NullFrame], microtask, env)} :
       /\ Commit(spawnErrorTick(killErrorTick(s1, env), env))
       /\ lastEvent' = SpawnEvent("microtask", TRUE,
                                  SpawnFailed(s1) \/ KillFailed(s1, env), s1)
  /\ UNCHANGED playVars
  /\ UNCHANGED <<durationSeconds, initialRawMode, now, started, pausePos>>

Microtask(o, kl, r) == MicrotaskIn(SysEnv(o, kl, r, FALSE))

\* a running decode process ends (end of file, crash, or the kill signal)
ProcExit(p) ==
  /\ microtask = NullFrame
  /\ procs[p].status = "running"
  /\ procs' = [procs EXCEPT ![p].status = "exited", ![p].onItsOwn = ~procs[p].asked]
  /\ UNCHANGED playVars
  /\ lastEvent' = Event("exit", "-", TRUE, FALSE)
  /\ UNCHANGED <<durationSeconds, initialRawMode, now, started, ffplayProcess,
                 expectingStop, pendingStopResolve, microtask, busy, done,
                 progressTimer, state, keypressAttached, rawMode, ui, outcome,
                 killsThrown, pausePos>>

\* the 'close' event of an ended process
ProcCloseIn(p, env) ==
  /\ microtask = NullFrame
  /\ procs[p].status = "exited"
  /\ \E gone \in {[Ctl EXCEPT !.procs[p] = NoProc]} :
       \E s1 \in {IF procs[p].listening THEN handleProcessClose(gone, env) ELSE gone} :
         /\ Commit(spawnErrorTick(s1, env))
         /\ lastEvent' = SpawnEvent("close", procs[p].listening, SpawnFailed(s1), s1)
  /\ UNCHANGED playVars
  /\ UNCHANGED <<durationSeconds, initialRawMode, now, started, pausePos>>

ProcClose(p, o, kl, r) == ProcCloseIn(p, SysEnv(o, kl, r, FALSE))

\* the interval timer calls render
RenderTick ==
  /\ microtask = NullFrame
  /\ progressTimer
  /\ Commit(render(Ctl))
  /\ UNCHANGED playVars
  /\ lastEvent' = Event("render", "-", TRUE, FALSE)
  /\ UNCHANGED <<durationSeconds, initialRawMode, now, started, pausePos>>

\* time passes
Tick(t) ==
  /\ microtask = NullFrame
  /\ t > now
  /\ t <= MaxNow
  /\ now' = t
  /\ UNCHANGED playVars
  /\ lastEvent' = Event("tick", "-", TRUE, FALSE)
  /\ UNCHANGED <<durationSeconds, initialRawMode, started, ffplayProcess,
                 expectingStop, pendingStopResolve, microtask, busy, done,
                 progressTimer, state, procs, keypressAttached, rawMode, ui,
                 outcome, killsThrown, pausePos>>

\* what the system can do in a step.  kill is called only on a current
\* process, and setRawMode(false) only in a session that did not start in raw
\* mode: elsewhere the outcome of the call is left out.  A process that has
\* delivered 'exit' takes no signal, a process that runs takes it or the
\* call fails
Kills == IF ffplayProcess = 0 THEN {"ok"}
         ELSE IF procs[ffplayProcess].status = "running" THEN KillOutcomes \ {"unsent"}
         ELSE {"unsent"}
Raws == IF initialRawMode THEN {FALSE} ELSE BOOLEAN

\* a session in a terminal in cooked mode, of a file whose probed duration
\* is not negative, with the clock, the space key and the arrows
TimedKeys == {"space", "left", "right"}

InitTimed == Init /\ ~initialRawMode /\ durationSeconds >= 0

Next ==
  \/ \E o \in SpawnOutcomes, kl \in Kills, r \in Raws : InitialStart(o, kl, r)
  \/ \E k \in TimedKeys, o \in SpawnOutcomes, kl \in Kills, r \in Raws :
        KeyPress(k, o, kl, r)
  \/ \E o \in SpawnOutcomes, kl \in Kills, r \in Raws : Microtask(o, kl, r)
  \/ \E p \in Slots : ProcExit(p)
  \/ \E p \in Slots, o \in SpawnOutcomes, kl \in Kills, r \in Raws : ProcClose(p, o, kl, r)
  \/ RenderTick
  \/ \E t \in Instants : Tick(t)

Spec == InitTimed /\ [][Next]_vars

\* a session at time 0 of a file of 7 s in which only the volume keys are
\* pressed
VolumeKeys == {"up", "down"}

InitVolume == Init /\ durationSeconds = ProbedDuration /\ ~initialRawMode

NextVolume ==
  \/ \E o \in SpawnOutcomes, kl \in Kills, r \in Raws : InitialStart(o, kl, r)
  \/ \E k \in VolumeKeys, o \in SpawnOutcomes, kl \in Kills, r \in Raws :
        VolumeKeyPress(k, o, kl, r)
  \/ \E o \in SpawnOutcomes, kl \in Kills, r \in Raws : Microtask(o, kl, r)
  \/ \E p \in Slots : ProcExit(p)
  \/ \E p \in Slots, o \in SpawnOutcomes, kl \in Kills, r \in Raws : ProcClose(p, o, kl, r)
  \/ RenderTick

SpecVolume == InitVolume /\ [][NextVolume]_vars

\* a session at time 0 of a file of 7 s, with every key
InitKeys == Init /\ durationSeconds = ProbedDuration

NextKeys ==
  \/ \E o \in SpawnOutcomes, kl \in Kills, r \in Raws : InitialStart(o, kl, r)
  \/ \E k \in Keys, o \in SpawnOutcomes, kl \in Kills, r \in Raws : KeyPress(k, o, kl, r)
  \/ \E o \in SpawnOutcomes, kl \in Kills, r \in Raws : Microtask(o, kl, r)
  \/ \E p \in Slots : ProcExit(p)
  \/ \E p \in Slots, o \in SpawnOutcomes, kl \in Kills, r \in Raws : ProcClose(p, o, kl, r)
  \/ RenderTick

SpecKeys == InitKeys /\ [][NextKeys]_vars

\* a session at time 0 of a file of 7 s with four keys, in which every event of a decode
\* process that is due is delivered in the end: the process ends and its
\* 'close' event is emitted
LiveKeys == {"space", "right", "q", "ctrl-c"}

NextLive ==
  \/ \E o \in SpawnOutcomes, kl \in Kills, r \in Raws : InitialStart(o, kl, r)
  \/ \E k \in LiveKeys, o \in SpawnOutcomes, kl \in Kills, r \in Raws : KeyPress(k, o, kl, r)
  \/ \E o \in SpawnOutcomes, kl \in Kills, r \in Raws : Microtask(o, kl, r)
  \/ \E p \in Slots : ProcExit(p)
  \/ \E p \in Slots, o \in SpawnOutcomes, kl \in Kills, r \in Raws : ProcClose(p, o, kl, r)
  \/ RenderTick

SpecLive ==
  /\ InitKeys
  /\ [][NextLive]_vars
  /\ WF_vars(\E o \in SpawnOutcomes, kl \in Kills, r \in Raws : Microtask(o, kl, r))
  /\ WF_vars(\E p \in Slots : ProcExit(p))
  /\ WF_vars(\E p \in Slots, o \in SpawnOutcomes, kl \in Kills, r \in Raws :
                ProcClose(p, o, kl, r))

\* ------------------------------------------------- playAudioFile calls
\* the state of the session variables while no session exists
NoSession == [ffplayProcess |-> 0, expectingStop |-> FALSE,
              pendingStopResolve |-> NullFrame, microtask |-> NullFrame,
              busy |-> FALSE, done |-> FALSE,
              progressTimer |-> FALSE,
              state |-> [offset |-> Zero, startedAt |-> 0, playing |-> FALSE, volume |-> 1000],
              procs |-> [p \in Slots |-> NoProc],
              keypressAttached |-> FALSE, rawMode |-> FALSE, ui |-> "none",
              outcome |-> "pending", killsThrown |-> 0]

\* the state at the end of the executor of playWithInteractiveConsole: the
\* variables of a new closure.  The decode processes of an earlier session and
\* their listeners belong to the closure of that session and are left out
NewSession == [NoSession EXCEPT !.progressTimer = TRUE, !.keypressAttached = TRUE,
                                !.rawMode = TRUE, !.ui = "shown"]

\* a process in which playAudioFile has not been called yet
InitPlay ==
  /\ durationSeconds = 0
  /\ initialRawMode = FALSE
  /\ now = 0
  /\ started = TRUE
  /\ ffplayProcess = NoSession.ffplayProcess
  /\ expectingStop = NoSession.expectingStop
  /\ pendingStopResolve = NoSession.pendingStopResolve
  /\ microtask = NoSession.microtask
  /\ busy = NoSession.busy
  /\ done = NoSession.done
  /\ progressTimer = NoSession.progressTimer
  /\ state = NoSession.state
  /\ procs = NoSession.procs
  /\ keypressAttached = NoSession.keypressAttached
  /\ rawMode = NoSession.rawMode
  /\ ui = NoSession.ui
  /\ outcome = NoSession.outcome
  /\ killsThrown = NoSession.killsThrown
  /\ lastEvent = NoEvent
  /\ pausePos = NoPos
  /\ isTTY \in BOOLEAN
  /\ debugMode \in BOOLEAN
  /\ ffplayAvailableCache = "null"
  /\ interactivePlayerNoticeShown = FALSE
  /\ probeLog = NoProbe
  /\ hintsShown = <<>>
  /\ hintRequests = 0
  /\ play = NewCall
  /\ basic = NoBasic

\* playAudioFile is called, up to its first await; a call starts when the
\* promise of the call before it has settled.  The closure of the basic
\* adapter of that call, whose player may still run, is left out: its events
\* reach nothing of the new call
PlayAudioFile(exists) ==
  /\ play.pc = "idle"
  /\ play.calls < MaxCalls
  /\ play' = IF exists
               THEN [NewCall EXCEPT !.calls = play.calls + 1, !.pc = "duration"]
               ELSE [NewCall EXCEPT !.calls = play.calls + 1, !.fileErrors = 1,
                                    !.result = "resolved"]
  /\ basic' = NoBasic
  /\ lastEvent' = Event("call", "-", exists, FALSE)
  /\ UNCHANGED <<sessVars, ctlVars, isTTY, debugMode, ffplayAvailableCache,
                 interactivePlayerNoticeShown, probeLog, hintsShown, hintRequests>>

\* getAudioDuration settles (the ffprobe callback, or the throw of exec),
\* and playAudioFile after its await up to the start of the session or of the
\* adapter.  The await is outside the try block: a rejected probe rejects the
\* promise of playAudioFile
DurationProbed(r, probe, raw, po) ==
  /\ play.pc = "duration"
  /\ LET p1 == getAudioDuration(play, r, ProbedDuration)
         c == choosePlayer(Mod, probe)
     IN IF p1.durationResult = "rejected"
          THEN /\ play' = [p1 EXCEPT !.result = "rejected", !.pc = "idle"]
               /\ UNCHANGED <<sessVars, ctlVars, ffplayAvailableCache,
                              interactivePlayerNoticeShown, probeLog, hintsShown,
                              hintRequests, basic>>
        ELSE
        /\ CommitMod(c.m)
        /\ IF c.player = "interactive"
             THEN /\ play' = [p1 EXCEPT !.pc = "interactive", !.sessions = @ + 1]
                  /\ basic' = basic
                  /\ Commit(NewSession)
                  /\ durationSeconds' = p1.duration
                  /\ initialRawMode' = raw
                  /\ started' = FALSE
                  /\ pausePos' = NoPos
                  /\ now' = now
             ELSE /\ play' = [p1 EXCEPT !.pc = "basic", !.basicStarts = @ + 1]
                  /\ basic' = playWithBasicAudio(p1.duration, po)
                  /\ UNCHANGED <<sessVars, ctlVars>>
  /\ lastEvent' = Event("probed", r, TRUE, FALSE)
  /\ UNCHANGED <<isTTY, debugMode>>

\* playAudioFile after the await of playWithInteractiveConsole
InteractiveSettled(po) ==
  /\ play.pc = "interactive"
  /\ outcome # "pending"
  /\ IF outcome = "rejected"
       THEN /\ CommitMod(notifyInteractiveLimitation(Mod, "fallback"))
            /\ play' = [play EXCEPT !.pc = "basic", !.basicStarts = @ + 1]
            /\ basic' = playWithBasicAudio(play.duration, po)
       ELSE /\ play' = closingMessage(play, outcome = "resolved_true")
            /\ UNCHANGED <<ffplayAvailableCache, interactivePlayerNoticeShown,
                           probeLog, hintsShown, hintRequests, basic>>
  /\ lastEvent' = Event("settled", "-", TRUE, FALSE)
  /\ UNCHANGED <<sessVars, ctlVars, isTTY, debugMode>>

\* playAudioFile after the await of playWithBasicAudio
BasicSettled ==
  /\ play.pc = "basic"
  /\ basic.outcome \in {"resolved_true", "resolved_false", "rejected"}
  /\ play' = IF basic.outcome = "rejected"
               THEN playCatch(play, basic.error)
               ELSE closingMessage(play, basic.outcome = "resolved_true")
  /\ lastEvent' = Event("settled", "-", TRUE, FALSE)
  /\ UNCHANGED <<sessVars, ctlVars, isTTY, debugMode, ffplayAvailableCache,
                 interactivePlayerNoticeShown, probeLog, hintsShown, hintRequests, basic>>

\* the player process has ended: audioPlayer.play calls back
BasicCallback(err) ==
  /\ basic.audioProcess \in {"running", "killed"}
  /\ basic' = [playCallback(basic, err) EXCEPT !.audioProcess = "closed"]
  /\ lastEvent' = Event("callback", err, TRUE, FALSE)
  /\ UNCHANGED <<sessVars, ctlVars, isTTY, debugMode, ffplayAvailableCache,
                 interactivePlayerNoticeShown, probeLog, hintsShown, hintRequests, play>>

\* the 'error' event of the player process
BasicProcError ==
  /\ basic.audioProcess \in {"running", "killed"}
  /\ ~basic.errored
  /\ basic' = audioProcessError(basic)
  /\ lastEvent' = Event("playerError", "-", TRUE, FALSE)
  /\ UNCHANGED <<sessVars, ctlVars, isTTY, debugMode, ffplayAvailableCache,
                 interactivePlayerNoticeShown, probeLog, hintsShown, hintRequests, play>>

\* SIGINT reaches the listener of the adapter
BasicSigint(killThrows) ==
  /\ basic.sigint
  /\ basic' = handleSigint(basic, killThrows)
  /\ lastEvent' = Event("sigint", IF killThrows THEN "killThrows" ELSE "-",
                        ~basic.abortedBySigint, FALSE)
  /\ UNCHANGED <<sessVars, ctlVars, isTTY, debugMode, ffplayAvailableCache,
                 interactivePlayerNoticeShown, probeLog, hintsShown, hintRequests, play>>

\* the progress interval of the adapter rewrites the status line
BasicTimer ==
  /\ basic.progressInterval
  /\ lastEvent' = Event("progress", "-", TRUE, FALSE)
  /\ UNCHANGED <<sessVars, ctlVars, playVars>>

NextPlay ==
  \/ \E exists \in BOOLEAN : PlayAudioFile(exists)
  \/ \E r \in DurationOutcomes, probe \in ProbeOutcomes, raw \in BOOLEAN,
        po \in PlayOutcomes : DurationProbed(r, probe, raw, po)
  \/ \E po \in PlayOutcomes : InteractiveSettled(po)
  \/ BasicSettled
  \/ \E err \in CallbackErrors : BasicCallback(err)
  \/ BasicProcError
  \/ \E killThrows \in BOOLEAN : BasicSigint(killThrows)
  \/ BasicTimer
  \/ \E o \in SpawnOutcomes, kl \in Kills, r \in Raws : InitialStart(o, kl, r)
  \/ \E k \in PlayKeys, o \in SpawnOutcomes, kl \in Kills, r \in Raws : KeyPress(k, o, kl, r)
  \/ \E o \in SpawnOutcomes, kl \in Kills, r \in Raws : Microtask(o, kl, r)
  \/ \E p \in Slots : ProcExit(p)
  \/ \E p \in Slots, o \in SpawnOutcomes, kl \in Kills, r \in Raws : ProcClose(p, o, kl, r)
  \/ RenderTick

SpecPlay == InitPlay /\ [][NextPlay]_vars

\* ================================================================ claims

KeyStep(k) == lastEvent'.type = "key" /\ lastEvent'.key = k
AcceptedKeyStep(k) == KeyStep(k) /\ lastEvent'.accepted
CloseStep(p) == lastEvent'.type = "close" /\ procs[p].status = "exited" /\ procs'[p].status # "exited"
\* the kill of the step has reached process p: a process that runs is sent
\* the signal; one that has ended (its close event is due) takes none
KillReaches(p) ==
  /\ procs'[p].asked
  /\ procs[p].status = "running" => procs'[p].killed

\* the close event that acknowledges a kill: it resumes the continuation op
\* stored by stopCurrentProcess
AckStep(op) ==
  /\ pendingStopResolve.op = op
  /\ \E p \in Slots : CloseStep(p) /\ procs[p].listening
\* the step that runs the queued continuation op of a key handler
MicrotaskStep(op) == microtask.op = op /\ lastEvent'.type = "microtask"

\* C1 as stated: at most one decode process of the session exists at any
\* instant: a process is spawned only when every process spawned before it
\* has delivered its close (or error) event, so no two are ever alive
\* together.
C1_AtMostOneProcess ==
  /\ Cardinality(Alive) <= 1
  /\ Cardinality(Spawned) <= 1

\* C2: a key press that arrives while busy is true changes nothing of the
\* controller (no state change, no spawn, no kill), and busy is true only
\* while a key handler is in progress, its continuation queued as a
\* microtask or suspended on a kill acknowledgement: it is cleared when the
\* handler finishes, normally or through the catch block.
C2_BusyDropsKeys ==
  [][ /\ (busy /\ \E k \in Keys : KeyStep(k)) =>
           (UNCHANGED ctlVars /\ ~lastEvent'.accepted)
      /\ busy' => \/ microtask'.caller = "key"
                  \/ (pendingStopResolve'.caller = "key" /\ expectingStop')
      /\ lastEvent'.type = "microtask" =>
           (busy' => (pendingStopResolve'.caller = "key" /\ expectingStop'))
    ]_vars

\* a key press was dropped while a handler waits for the kill acknowledgement
C2_Witness ==
  /\ busy
  /\ ~done
  /\ lastEvent.type = "key"
  /\ ~lastEvent.accepted
  /\ \E p \in Slots : procs[p].status = "running" /\ procs[p].killed

\* C3 as stated: when the close event of a decode process arrives that ended
\* with no kill request of the controller before its exit, state.playing
\* becomes false and the session resolves with completed = true in the same
\* step.
C3_NaturalExitCompletes ==
  [][ \A p \in Slots :
        (CloseStep(p) /\ procs[p].listening /\ procs[p].onItsOwn) =>
          (~state'.playing /\ done' /\ outcome' = "resolved_true")
    ]_vars

\* an accepted stop key k ends the session: done is set and the timer is
\* cancelled at once, and the session stays pending behind the
\* finalize(false) continuation: without a current process the continuation
\* is queued, with one the process is sent the kill and the continuation
\* waits for the close event
StopsSession(k) ==
  (AcceptedKeyStep(k) /\ ~busy /\ ~done) =>
     /\ done'
     /\ ~progressTimer'
     /\ outcome' = "pending"
     /\ IF ffplayProcess = 0
          THEN /\ microtask' = Frame("finalize", 0, "key")
               /\ pendingStopResolve' = NullFrame
               /\ Alive' = {}
          ELSE /\ KillReaches(ffplayProcess)
               /\ pendingStopResolve' = Frame("finalize", 0, "key")
               /\ microtask' = NullFrame

\* the close event that acknowledges the kill sent by finalize(false)
\* resolves the session with completed = false, and so does the queued
\* continuation of a finalize(false) that had no process to kill
StopAcknowledged ==
  /\ \A p \in Slots :
       (CloseStep(p) /\ procs[p].listening /\ expectingStop
          /\ pendingStopResolve = Frame("finalize", 0, "key")) =>
         (outcome' = "resolved_false" /\ procs'[p].status = "none")
  /\ MicrotaskStep("finalize") => (outcome' = "resolved_false" /\ Alive' = {})

\* C4 as stated: q, escape or enter in a live session (playing or paused)
\* stops it: the live decode process is killed, its close event is awaited,
\* and the session then resolves with completed = false.
C4_QuitKeysStop ==
  [][ (\A k \in QuitKeys : StopsSession(k)) /\ StopAcknowledged ]_vars

\* C5 as stated, for a ctrl+c that no earlier key handler holds back: it
\* stops the session at once (done is set and the live process is killed by
\* the step of the key press), the kill is acknowledged, and the session then
\* resolves with completed = false.
C5_CtrlCStops ==
  [][ /\ StopsSession("ctrl-c")
      /\ (AcceptedKeyStep("ctrl-c") /\ ~busy /\ ~done) =>
            (pendingStopResolve'.op = "finalize" \/ microtask'.op = "finalize")
      /\ (MicrotaskStep("finalize") \/ AckStep("finalize")) =>
            outcome' = "resolved_false"
    ]_vars

\* the waiter run by the close event is startPlayback and its spawn throws
\* or returns a child that cannot be started
RespawnFailed ==
  /\ pendingStopResolve.op = "startPlayback"
  /\ ~lastEvent'.spawned \/ lastEvent'.error

\* C6: a process the controller has sent a kill to and still listens to is
\* the current one and is marked expected (expectingStop, with a pending stop
\* waiter), from the step that sends the kill on, so its close event is
\* taken as expected; the close event of an expected stop only runs the
\* waiter: it never resolves the session with completed = true, and unless
\* the respawn of the waiter fails (spawn throws or the child cannot be
\* started) it leaves done as it was and settles the session only if the
\* waiter was a finalize or fail already in progress (done was set).
C6_ExpectedStop ==
  [][ /\ \A p \in Slots :
           (procs'[p].killed /\ procs'[p].listening) =>
             (expectingStop' /\ pendingStopResolve' # NullFrame /\ ffplayProcess' = p)
      /\ \A p \in Slots :
           (CloseStep(p) /\ procs[p].listening /\ procs[p].killed) => expectingStop
      /\ \A p \in Slots :
           (CloseStep(p) /\ procs[p].listening /\ expectingStop) =>
             /\ outcome' # "resolved_true"
             /\ ~RespawnFailed => (done' = done /\ (outcome' # outcome => done))
             /\ ~expectingStop'
             /\ pendingStopResolve' = NullFrame
    ]_vars

\* the close event of a pause was taken as the acknowledgement: the session
\* goes on, paused
C6_Witness ==
  /\ lastEvent.type = "close"
  /\ ~done
  /\ ~busy
  /\ ~state.playing
  /\ outcome = "pending"
  /\ ffplayProcess = 0

\* C7 as stated: once the promise of the session has settled, the render timer is
\* cancelled, no decode process of the session is alive, the keypress
\* listener is detached, raw mode is what it was before the session and the
\* status block is cleared.
C7_TeardownBeforeSettle ==
  outcome # "pending" =>
    /\ ~progressTimer
    /\ Alive = {}
    /\ ~keypressAttached
    /\ rawMode = initialRawMode
    /\ ui = "cleared"

\* the space key is accepted in a paused session right after the pause
ResumeAfterPause ==
  AcceptedKeyStep("space") /\ ~busy /\ ~state.playing /\ pausePos # NoPos

\* the continuation of that resume runs: startPlayback after its await,
\* queued, or behind the kill of a process that a pause has left
ResumeStep ==
  /\ MicrotaskStep("startPlayback") \/ AckStep("startPlayback")
  /\ ~state.playing
  /\ pausePos # NoPos

\* the position that continuation was called with
ResumePos ==
  IF microtask.op = "startPlayback" THEN microtask.pos ELSE pendingStopResolve.pos

\* C8 as stated: after pause then resume, state.offset and the offset the
\* resumed decode process is started at both equal the live position at the
\* moment the pause key was pressed.
C8_Original ==
  [][ ResumeStep =>
        /\ state'.offset = pausePos
        /\ (lastEvent'.spawned /\ ffplayProcess' # 0) =>
             procs'[ffplayProcess'].ss = pausePos.ms
    ]_vars

\* C8 amended: after pause then resume, state.offset equals the live position
\* at the moment the pause key was pressed, and the resumed decode process is
\* started at that position rounded to a hundredth of a second (the -ss
\* argument is start.toFixed(2)), so within 5 ms of it; toFixed rounds the
\* double, so a pause at 3.005 s is resumed with -ss 3.00, and a pause 3.005 s
\* after a start at 5 s (the float sum is 8.004999999999999) with -ss 8.00.
C8_PauseResumeKeepsPosition ==
  [][ /\ (AcceptedKeyStep("space") /\ ~busy /\ state.playing) =>
           (state'.offset = getLivePosition(Ctl) /\ ~state'.playing)
      /\ ResumeAfterPause =>
           /\ state' = state
           /\ state.offset = pausePos
           /\ StartFrame(pausePos, "key") \in {microtask', pendingStopResolve'}
           /\ ffplayProcess = 0 => microtask' = StartFrame(pausePos, "key")
      /\ ResumeStep =>
           /\ ResumePos = pausePos
           /\ state'.offset = pausePos
           /\ state'.playing
           /\ (lastEvent'.spawned /\ ffplayProcess' # 0) =>
                /\ procs'[ffplayProcess'].ss % 10 = 0
                /\ procs'[ffplayProcess'].ss - pausePos.ms \in (0 - 5)..5
                /\ pausePos = Nearest(3005) => procs'[ffplayProcess'].ss = 3000
                /\ pausePos = fadd(Nearest(5000), Nearest(3005)) =>
                     procs'[ffplayProcess'].ss = 8000
    ]_vars

\* paused at 3.005 s and resumed: the offset is 3.005 s, the process was
\* started with -ss 3.00
C8_Witness ==
  /\ lastEvent.type = "microtask"
  /\ pausePos = Nearest(3005)
  /\ state.playing
  /\ state.offset = Nearest(3005)
  /\ ffplayProcess # 0
  /\ procs[ffplayProcess].status = "running"
  /\ procs[ffplayProcess].ss = 3000

\* the offset an arrow key must set, in milliseconds: the live position moved
\* by delta, not below 0, not above a duration that is known (positive)
SeekTarget(delta) ==
  LET t == getLivePosition(Ctl).ms + delta
  IN IF t < 0 THEN 0
     ELSE IF durationSeconds > 0 /\ t > durationSeconds THEN durationSeconds
     ELSE t

\* C9: an accepted left or right arrow sets state.offset to the live position
\* minus or plus 5 s (to the millisecond: the float sum is a double next to
\* it), clamped at 0 and at a known duration, unclamped above when the
\* duration is unknown; with duration 125.4 s and live position 3 s the right
\* arrow sets it to 8 s.
C9_SeekClamps ==
  [][ /\ (AcceptedKeyStep("left") /\ ~busy) => state'.offset.ms = SeekTarget(0 - 5000)
      /\ (AcceptedKeyStep("right") /\ ~busy) => state'.offset.ms = SeekTarget(5000)
      /\ (\E k \in {"left", "right"} : AcceptedKeyStep(k) /\ ~busy) =>
           /\ ~fless(state'.offset, Zero)
           /\ durationSeconds > 0 => ~fless(Duration, state'.offset)
      /\ (AcceptedKeyStep("right") /\ ~busy /\ durationSeconds = 125400
            /\ getLivePosition(Ctl) = Nearest(3000)) => state'.offset = Nearest(8000)
    ]_vars

C9_Witness ==
  /\ lastEvent = Event("key", "right", TRUE, FALSE)
  /\ durationSeconds = 125400
  /\ state.offset = Nearest(8000)
  /\ state.playing

\* C10: the volume starts at 1.0 and stays within [0, 4]; an accepted up or
\* down press moves it by exactly 0.1, or to the bound when the step would
\* pass it, so a press at the bound leaves it there; nothing else changes it.
C10_VolumeBounds ==
  /\ state.volume = 1000
  /\ [][ /\ state'.volume >= 0
         /\ state'.volume <= 4000
         /\ (AcceptedKeyStep("up") /\ ~busy) =>
              state'.volume = (IF state.volume + 100 > 4000 THEN 4000
                               ELSE state.volume + 100)
         /\ (AcceptedKeyStep("down") /\ ~busy) =>
              state'.volume = (IF state.volume - 100 < 0 THEN 0
                               ELSE state.volume - 100)
         /\ ~(\E k \in {"up", "down"} : AcceptedKeyStep(k)) =>
              state'.volume = state.volume
       ]_vars

\* an up press at volume 4.0 while playing: nothing is restarted, the volume
\* stays at the bound
C10_Witness ==
  /\ lastEvent = Event("key", "up", TRUE, FALSE)
  /\ state.volume = 4000
  /\ state.playing
  /\ microtask = Frame("onKeypress", 0, "key")

\* C11 as stated: an accepted space while playing freezes state.offset at the live
\* position, sets playing to false, kills the decode process and waits for its
\* close event; neither the key step nor the step that delivers the
\* acknowledgement spawns a process.
C11_PauseKillsAndWaits ==
  [][ /\ (AcceptedKeyStep("space") /\ ~busy /\ state.playing) =>
           /\ state'.offset = getLivePosition(Ctl)
           /\ ~state'.playing
           /\ Spawned' \subseteq Spawned
           /\ ffplayProcess' = ffplayProcess
           /\ ffplayProcess # 0 =>
                /\ KillReaches(ffplayProcess)
                /\ expectingStop'
                /\ busy'
                /\ pendingStopResolve' = Frame("pausePlayback", 0, "key")
                /\ outcome' = "pending"
      /\ AckStep("pausePlayback") =>
           /\ ~lastEvent'.spawned
           /\ Spawned' = {}
           /\ ffplayProcess' = 0
           /\ ~state'.playing
           /\ state'.offset = state.offset
           /\ ~busy'
           /\ outcome' = "pending"
    ]_vars

\* the transport keys other than the quit keys
TransportKeys == {"space", "left", "right", "up", "down"}

\* the position the process is to be restarted at by key k: the offset of a
\* resume, the offset a seek has set (C9), the live position of a volume key
RestartTarget(k) ==
  IF k = "space" THEN state.offset
  ELSE IF k \in {"left", "right"} THEN state'.offset
  ELSE getLivePosition(Ctl)

\* key k is a resume, a seek or a volume key (space while playing is a pause)
TransportStep(k) ==
  AcceptedKeyStep(k) /\ ~busy /\ (k = "space" => ~state.playing)

\* key k needs audio: a resume, a seek while playing, a volume key that
\* changes the volume while playing
NeedsAudio(k) ==
  IF k = "space" THEN ~state.playing
  ELSE IF k \in {"left", "right"} THEN state.playing
  ELSE /\ state.playing
       /\ state.volume # (IF k = "up"
                            THEN Min(MAX_VOLUME, state.volume + VOLUME_STEP)
                            ELSE Max(MIN_VOLUME, state.volume - VOLUME_STEP))

\* after the step the only process is a fresh one, started at t rounded to a
\* hundredth of a second as toFixed rounds the double: 5 + 3.005 is just
\* below 8.005 and gives 8.00, (8 + 0.005) - 5 is just above 3.005 and
\* gives 3.01
FreshAt(t) ==
  /\ ffplayProcess' # 0
  /\ Spawned' = {ffplayProcess'}
  /\ procs'[ffplayProcess'].ss % 10 = 0
  /\ procs'[ffplayProcess'].ss - t.ms \in (0 - 5)..5
  /\ t = fadd(Nearest(5000), Nearest(3005)) => procs'[ffplayProcess'].ss = 8000
  /\ t = fadd(fadd(Nearest(8000), Nearest(5)), Nearest(0 - 5000)) =>
       procs'[ffplayProcess'].ss = 3010
  /\ procs'[ffplayProcess'].vol = state'.volume
  /\ state'.offset = t
  /\ state'.startedAt = now
  /\ state'.playing

\* the step kills the live process and leaves the restart at t waiting for
\* the close event
KilledFor(t) ==
  /\ KillReaches(ffplayProcess)
  /\ Spawned' \subseteq Spawned
  /\ ffplayProcess' = ffplayProcess
  /\ expectingStop'
  /\ busy'
  /\ pendingStopResolve' = StartFrame(t, "key")
  /\ microtask' = NullFrame

\* the step finds no process to kill and leaves the restart at t queued
Deferred(t) ==
  /\ procs' = procs
  /\ ffplayProcess' = 0
  /\ busy'
  /\ pendingStopResolve' = NullFrame
  /\ microtask' = StartFrame(t, "key")

\* C12 as stated, for the keys that need audio (a resume, a seek while
\* playing, a volume key that changes the volume while playing) and with
\* the start position as it is passed to the process (rounded to a hundredth
\* of a second): the key kills the live process, waits for its close event
\* and then spawns a fresh process at the target and at the current volume,
\* with state.offset at the target and state.startedAt at the spawn time; a
\* seek or a volume key while paused has no audio to restart: it spawns and
\* kills nothing and leaves the session paused.
C12_RestartAtTarget ==
  [][ /\ \A k \in TransportKeys :
           /\ (TransportStep(k) /\ NeedsAudio(k)) =>
                IF ffplayProcess # 0
                  THEN KilledFor(RestartTarget(k))
                  ELSE Deferred(RestartTarget(k))
           /\ (TransportStep(k) /\ ~NeedsAudio(k)) =>
                /\ procs' = procs
                /\ ffplayProcess' = ffplayProcess
                /\ state'.playing = state.playing
                /\ state'.startedAt = state.startedAt
                /\ pendingStopResolve' = NullFrame
                /\ microtask' = Frame("onKeypress", 0, "key")
      /\ AckStep("startPlayback") =>
           (~done' => FreshAt(pendingStopResolve.pos))
      /\ MicrotaskStep("startPlayback") =>
           (~done' => FreshAt(microtask.pos))
      /\ MicrotaskStep("onKeypress") =>
           (UNCHANGED <<procs, ffplayProcess, state>> /\ ~busy')
    ]_vars

\* the call in progress has got past the duration probe
PastProbe ==
  /\ play.calls > 0
  /\ play.fileErrors = 0
  /\ play.pc # "duration"
  /\ play.durationResult # "rejected"

\* C13: in a process whose standard input is not a TTY, playAudioFile never
\* runs the ffplay version probe and never starts a session or a decode
\* process; every call that gets past the duration probe is played by the basic
\* adapter, started once, on the first call and on every later call.
C13_NoTerminalNoFfplay ==
  ~isTTY =>
    /\ probeLog.runs = 0
    /\ ffplayAvailableCache = "null"
    /\ play.sessions = 0
    /\ play.pc # "interactive"
    /\ Spawned = {}
    /\ PastProbe => (play.basicStarts = 1 /\ basic.outcome # "none")

\* without a terminal the second call is being played by the basic adapter
C13_Witness ==
  /\ ~isTTY
  /\ play.calls = 2
  /\ play.pc = "basic"
  /\ basic.audioProcess = "running"
  /\ probeLog.runs = 0

\* C14: over all playAudioFile calls of one process the version probe is run
\* at most once; the cache holds its result and every eligibility check
\* returns it, whether the probe succeeded or failed.
C14_ProbeOnce ==
  /\ probeLog.runs <= 1
  /\ (probeLog.runs = 0) = (ffplayAvailableCache = "null")
  /\ probeLog.runs = 1 => ffplayAvailableCache = probeLog.first
  /\ probeLog.last # "none" => probeLog.last = probeLog.first

\* the eligibility check of a second call has returned the failed probe of
\* the first call
C14_Witness ==
  /\ isTTY
  /\ play.calls = 2
  /\ play.pc = "basic"
  /\ lastEvent.type = "probed"
  /\ probeLog = [runs |-> 1, first |-> "false", last |-> "false"]

\* the message playAudioFile asks for when it starts the basic adapter
LimitationMessage ==
  IF play.pc = "interactive" THEN "fallback"
  ELSE IF ~isTTY THEN "noTerminal"
  ELSE "noFfplay"

\* the step starts the basic adapter
BasicStarts == play'.basicStarts > play.basicStarts

\* C15: over all playback calls of one process at most one limitation hint
\* is shown: the one requested first, whichever of the three messages it is;
\* a later request shows nothing, and the basic adapter is started all the
\* same.
C15_HintOnce ==
  /\ [](/\ Len(hintsShown) <= 1
        /\ interactivePlayerNoticeShown = (Len(hintsShown) = 1)
        /\ hintRequests > 0 => Len(hintsShown) = 1)
  /\ [][ /\ hintRequests' # hintRequests =>
              /\ hintRequests' = hintRequests + 1
              /\ hintsShown' = (IF hintRequests = 0 THEN <<LimitationMessage>>
                                ELSE hintsShown)
              /\ BasicStarts
              /\ play'.pc = "basic"
              /\ basic'.outcome # "none"
         /\ hintRequests' = hintRequests => hintsShown' = hintsShown
       ]_vars

\* the second request of the process showed nothing; the adapter plays
C15_Witness ==
  /\ hintRequests = 2
  /\ Len(hintsShown) = 1
  /\ play.pc = "basic"
  /\ basic.audioProcess = "running"

\* C16 as stated: once SIGINT has reached the basic adapter while it plays,
\* the player process is sent the kill (unless the call throws) and the
\* promise of the adapter settles only as resolved with completed = false.
C16_SigintStops ==
  /\ lastEvent = Event("sigint", "-", TRUE, FALSE) => basic.audioProcess = "killed"
  /\ basic.abortedBySigint => basic.outcome \in {"pending", "resolved_false"}

\* the session is torn down: C7 for the state before the fallback
TornDown ==
  /\ ~progressTimer
  /\ Alive = {}
  /\ ffplayProcess = 0
  /\ ~keypressAttached
  /\ rawMode = initialRawMode
  /\ ui = "cleared"

\* C17 as stated: when the session promise rejects, playAudioFile requests the one-time
\* notice and starts the basic adapter, once for that call, and the session is
\* torn down by then; the adapter is not started while the session is pending.
C17_FallbackAfterTeardown ==
  /\ [](/\ play.basicStarts <= 1
        /\ play.pc = "interactive" => play.basicStarts = 0
        /\ (play.pc = "basic" /\ play.sessions = 1) =>
             (play.basicStarts = 1 /\ outcome = "rejected" /\ TornDown))
  /\ [][ /\ (play.pc = "interactive" /\ play'.pc # "interactive") =>
              /\ outcome # "pending"
              /\ TornDown
              /\ outcome = "rejected" =>
                   /\ play'.pc = "basic"
                   /\ play'.basicStarts = 1
                   /\ basic'.outcome # "none"
                   /\ hintRequests' = hintRequests + 1
                   /\ interactivePlayerNoticeShown'
                   /\ hintsShown' = (IF interactivePlayerNoticeShown THEN hintsShown
                                     ELSE <<"fallback">>)
              /\ outcome # "rejected" => ~BasicStarts
         /\ (play.pc = "interactive" /\ outcome = "pending") => ~BasicStarts
       ]_vars

\* C18 as stated: playAudioFile never rejects.  A missing file ends the call at once;
\* a failed duration probe, a rejected session and a rejected adapter do not
\* keep the call from resolving; a rejected adapter is reported once, by
\* voice.warn of the error message outside debug mode (by console.error of
\* the error in debug mode), and no closing message follows it.
C18_NeverRejects ==
  /\ [](/\ play.result # "rejected"
        /\ play.warns + play.errors <= 1
        /\ play.pc = "idle" => play.result = (IF play.calls = 0 THEN "none" ELSE "resolved"))
  /\ [][ /\ (lastEvent'.type = "call" /\ ~lastEvent'.accepted) =>
              (play'.result = "resolved" /\ play'.pc = "idle" /\ play'.fileErrors = 1)
         /\ (play.pc = "duration" /\ play'.durationWarns = 1) =>
              play'.pc \in {"interactive", "basic"}
         /\ (play.pc = "basic" /\ play'.pc # "basic") =>
              /\ play'.pc = "idle"
              /\ play'.result = "resolved"
              /\ basic.outcome = "rejected" =>
                   /\ play'.closing = "none"
                   /\ play'.warns = (IF debugMode THEN 0 ELSE 1)
                   /\ play'.errors = (IF debugMode THEN 1 ELSE 0)
                   /\ play'.warned = (IF debugMode THEN "none" ELSE basic.error)
              /\ basic.outcome # "rejected" =>
                   (play'.warns = 0 /\ play'.errors = 0 /\ play'.closing # "none")
       ]_vars

\* an 'error' event of the current decode process reaches the session
ErrorStep == lastEvent'.error

\* the promise is rejected and the teardown has run
RejectedAfterTeardown ==
  /\ outcome' = "rejected"
  /\ ~keypressAttached'
  /\ ui' = "cleared"

\* C19 as stated: an 'error' event of the current decode process ends the
\* session in every state: the session is done and its timer cancelled in
\* that step, the teardown runs and the promise is rejected in that step or,
\* in a keypress callback, in the continuation it queues, also while a stop
\* asked for by a transport key or a quit key is pending; once the session is
\* done no transport action is applied and nothing is spawned.
C19_ErrorIsFatal ==
  [][ /\ ErrorStep =>
           /\ done'
           /\ ~progressTimer'
           /\ microtask'.op = "fail" \/ RejectedAfterTeardown
      /\ MicrotaskStep("fail") => RejectedAfterTeardown
      /\ done =>
           /\ ~lastEvent'.spawned
           /\ Spawned' \subseteq Spawned
           /\ state'.offset = state.offset
           /\ state'.startedAt = state.startedAt
           /\ state'.volume = state.volume
    ]_vars

\* an accepted quit key or ctrl+c was the last event
QuitAccepted ==
  /\ lastEvent.type = "key"
  /\ lastEvent.key \in QuitKeys \cup {"ctrl-c"}
  /\ lastEvent.accepted

\* C20 as stated: if every decode process ends and delivers its close event,
\* every wait of the session ends: a key handler that is waiting (busy)
\* finishes or the session settles, and after an accepted quit key or ctrl+c
\* the session promise settles.
C20_WaitsEnd ==
  /\ busy ~> (~busy \/ outcome # "pending")
  /\ QuitAccepted ~> (outcome # "pending")

\* C21 as stated: getAudioDuration only resolves: with the parsed number and no
\* warning when ffprobe prints a number, and with null after exactly one
\* warning when ffprobe is missing, fails, or prints no number; playAudioFile
\* goes on to a player in each case.
C21_DurationNeverRejects ==
  /\ [](/\ play.durationWarns <= 1
        /\ (play.durationResult = "null") = (play.durationWarns = 1)
        /\ (play.durationResult = "number") => play.duration = ProbedDuration
        /\ (play.durationResult = "null") => play.duration = 0
        /\ (play.durationResult = "none") = (play.pc = "duration" \/ ~PastProbe))
  /\ [][ lastEvent'.type = "probed" =>
           /\ play.pc = "duration"
           /\ play'.pc \in {"interactive", "basic"}
           /\ play'.durationResult = (IF lastEvent'.key = "ok" THEN "number" ELSE "null")
           /\ play'.durationWarned =
                (IF lastEvent'.key = "ok" THEN "none"
                 ELSE IF lastEvent'.key = "enoent" THEN "ffprobeMissing"
                 ELSE IF lastEvent'.key = "error" THEN "unreadable"
                 ELSE "format")
       ]_vars

\* the step starts the basic adapter with audioPlayer.play doing po
StartsBasic(po) ==
  /\ BasicStarts
  /\ \/ \E r \in DurationOutcomes, probe \in ProbeOutcomes, raw \in BOOLEAN :
          DurationProbed(r, probe, raw, po)
     \/ InteractiveSettled(po)

BasicSettledOutcomes == {"resolved_true", "resolved_false", "rejected"}

\* the promise of one adapter call keeps its first outcome
SettlesOnce ==
  (basic.outcome \in BasicSettledOutcomes /\ basic'.outcome # "none") =>
     (basic'.outcome = basic.outcome /\ basic'.error = basic.error)

ClosingDue ==
  LET result == IF play.pc = "interactive" THEN outcome ELSE basic.outcome
  IN IF result = "resolved_false" THEN "stopped"
     ELSE IF result = "resolved_true" THEN "done"
     ELSE "none"

\* C24: a call prints its closing message when it ends, and only then:
\* 'stopped <file>.' exactly when the playback result has completed = false,
\* 'done listening to <file>.' for any other result, and none when the
\* playback ended with an error (or the file was missing).
C24_ClosingMessage ==
  /\ [](play.pc # "idle" => play.closing = "none")
  /\ [][ /\ (play.pc \in {"interactive", "basic"} /\ play'.pc = "idle") =>
              /\ play'.closing = ClosingDue
              /\ (play'.closing = "none") = (play'.warns + play'.errors = 1)
         /\ lastEvent'.type = "call" => play'.closing = "none"
         /\ play'.closing # play.closing =>
              (play'.pc = "idle" \/ lastEvent'.type = "call")
       ]_vars

\* the user stopped the session with q: 'stopped <file>.'
C24_Witness ==
  /\ play.pc = "idle"
  /\ play.sessions = 1
  /\ play.basicStarts = 0
  /\ outcome = "resolved_false"
  /\ play.closing = "stopped"

\* x is a position: not negative, not above a known (positive) duration
PositionBounds(x) ==
  /\ ~fless(x, Zero)
  /\ durationSeconds > 0 => ~fless(Duration, x)

\* the live position as the spec defines it, in milliseconds
LiveDue ==
  LET raw == IF state.playing THEN state.offset.ms + (now - state.startedAt)
             ELSE state.offset.ms
  IN IF raw < 0 THEN 0
     ELSE IF durationSeconds > 0 /\ raw > durationSeconds THEN durationSeconds
     ELSE raw

\* C23: in every state of a session the live position is the clamped
\* offset + time since startedAt while playing and the clamped offset while
\* paused (to the millisecond: the float sum is a double next to it): never
\* negative, never above a known duration, not bounded above when the
\* duration is unknown; state.offset lies within the same bounds.
C23_LivePosition ==
  /\ getLivePosition(Ctl).ms = LiveDue
  /\ ~state.playing => getLivePosition(Ctl) = state.offset
  /\ PositionBounds(getLivePosition(Ctl))
  /\ PositionBounds(state.offset)
  /\ (durationSeconds <= 0 /\ state.playing) =>
       getLivePosition(Ctl) = fadd(state.offset, Nearest(now - state.startedAt))

\* playing past the end of a 7 s file: the live position stays at 7 s
C23_Witness ==
  /\ durationSeconds = 7000
  /\ state.playing
  /\ state.offset.ms + (now - state.startedAt) > 7000
  /\ getLivePosition(Ctl) = Nearest(7000)

\* C25 as stated: whenever no key handler is in progress and the session is not done,
\* state.playing is true exactly when the controller holds a process handle,
\* and while paused no decode process exists.
C25_PlayingIffHandle ==
  (~busy /\ ~done) =>
     /\ state.playing = (ffplayProcess # 0)
     /\ ~state.playing => Spawned = {}

\* the outcome the call that set done will settle the session with, while
\* its continuation is queued or waits for the kill acknowledgement
Decided ==
  LET frame == IF microtask # NullFrame THEN microtask ELSE pendingStopResolve
  IN IF frame.op = "fail" THEN "rejected"
     ELSE IF frame.op = "finalize"
            THEN (IF frame.arg = 1 THEN "resolved_true" ELSE "resolved_false")
     ELSE "pending"

\* a continuation of finalize or fail
Ending(frame) == frame.op \in {"finalize", "fail"}

\* C26 as stated: once done is set, no decode process is spawned, no
\* transport action is applied, the status block is not drawn again (it can
\* only be cleared), and a later finalize or fail changes nothing: only the
\* call that set done has a continuation, and the session settles only with
\* its outcome.
C26_DoneIsFinal ==
  [][ done =>
        /\ done'
        /\ ~progressTimer'
        /\ ~lastEvent'.spawned
        /\ Spawned' \subseteq Spawned
        /\ state'.offset = state.offset
        /\ state'.startedAt = state.startedAt
        /\ state'.volume = state.volume
        /\ ui' # ui => ui' = "cleared"
        /\ outcome # "pending" => outcome' = outcome
        /\ outcome = "pending" => outcome' \in {"pending", Decided}
        /\ ~(Ending(microtask') /\ Ending(pendingStopResolve'))
    ]_vars

\* C28 as stated: while playing, state.startedAt is the time at which
\* state.offset was last assigned; when a seek on a playing session waits for
\* the kill acknowledgement, the live position is the seek target plus the
\* time since the key press.
C28_SameSegment ==
  [][ /\ (state'.playing /\ state'.offset # state.offset) => state'.startedAt = now'
      /\ \A k \in {"left", "right"} :
           (AcceptedKeyStep(k) /\ ~busy /\ state.playing /\ busy') =>
              getLivePosition([Ctl EXCEPT !.state = state']) = state'.offset
    ]_vars

\* C27 as stated: when the promise of stopCurrentProcess resolves, by the
\* close event of the killed process or at once because the kill throws, the
\* process that was current has ended and the controller holds no handle and
\* no pending stop.  The stops looked at are those whose continuation spawns
\* nothing: of a pause, of finalize, of fail.
C27_StopLeavesNothing ==
  [][ /\ \A op \in {"pausePlayback", "finalize", "fail"} :
           AckStep(op) =>
             /\ ffplayProcess' = 0
             /\ ~expectingStop'
             /\ pendingStopResolve' = NullFrame
      /\ (AcceptedKeyStep("space") /\ ~busy /\ state.playing
            /\ pendingStopResolve' = NullFrame) =>
           /\ ffplayProcess' = 0
           /\ ~expectingStop'
           /\ Alive' = {}
    ]_vars

\* C29: an accepted up at volume 4 or down at volume 0 changes nothing of the
\* controller: the process is neither killed nor respawned, offset, startedAt
\* and playing stay, no wait for a process is started; the handler ends with
\* its queued continuation, which only clears busy.
C29_NoOpAtBound ==
  [][ /\ \A k \in {"up", "down"} :
           (AcceptedKeyStep(k) /\ ~busy
              /\ state.volume = (IF k = "up" THEN MAX_VOLUME ELSE MIN_VOLUME)) =>
             /\ state' = state
             /\ procs' = procs
             /\ ffplayProcess' = ffplayProcess
             /\ expectingStop' = expectingStop
             /\ pendingStopResolve' = pendingStopResolve
             /\ microtask' = Frame("onKeypress", 0, "key")
             /\ outcome' = outcome
      /\ MicrotaskStep("onKeypress") =>
           /\ UNCHANGED <<state, procs, ffplayProcess, expectingStop,
                          pendingStopResolve, outcome>>
           /\ ~busy'
    ]_vars

\* a down press at volume 0 while playing: the same process runs on
C29_Witness ==
  /\ lastEvent = Event("key", "down", TRUE, FALSE)
  /\ state.volume = 0
  /\ state.playing
  /\ ffplayProcess # 0
  /\ procs[ffplayProcess].status = "running"
  /\ ~procs[ffplayProcess].killed
  /\ microtask = Frame("onKeypress", 0, "key")

\* C30 as stated: whenever the promise of the basic adapter has settled, its SIGINT
\* listener is removed and its progress timer is cancelled: after a natural
\* end, a player error, an 'error' event of the process, no process returned,
\* and an interrupt.
C30_AdapterCleansUp ==
  /\ [](basic.outcome \in BasicSettledOutcomes =>
          (~basic.sigint /\ ~basic.progressInterval))
  /\ [][ (basic.outcome = "pending" /\ basic'.outcome \in BasicSettledOutcomes) =>
           (~basic'.sigint /\ ~basic'.progressInterval)
       ]_vars

====
